---------------------------- MODULE Spec2Model ----------------------------
(***************************************************************************)
(* A model of src/src/main.js: the countdown timer (PomodoroTimer), the    *)
(* IndexedDB image store (ImageStorage, driven by BackgroundManager) and   *)
(* the to-do list (TodoManager), and the rain-noise mixer (AudioMixer).     *)
(* The objects share no state, so each has a specification of its own:     *)
(* SpecTimer, SpecStore, SpecTodo, SpecAudio.                              *)
(***************************************************************************)
EXTENDS Integers, Sequences, FiniteSets, TLC

VARIABLES
    timer,      \* the PomodoroTimer object, its display and the page's interval table
    lastOp,     \* history: the last timer operation that ran, with its argument
    notified,   \* history: alert() calls since the timer was last started
    run,        \* history: remaining at the last start and the ticks fired since
    past,       \* history: the operation before the last one and the timer the last one found
    todo,       \* the TodoManager object, #todo-input and the localStorage item
    todoLast,   \* history: the last to-do operation, its input and the state before it
    store,      \* the ImageStorage object, its database and the calls in flight
    storeHist,  \* history: what each getAllImages call must and must not return
    mixer,      \* the AudioMixer object, #rain-vol and the audio nodes it made
    mixerLast,  \* history: the last mixer event, and whether an input event has run
    now         \* Date.now()

timerVars == <<timer, lastOp, notified, run, past>>
todoVars == <<todo, todoLast>>

storeVars == <<store, storeHist>>

audioVars == <<mixer, mixerLast>>

vars == <<timerVars, todoVars, storeVars, audioVars, now>>

\* What a step of one object leaves alone.
notTimer == <<todoVars, storeVars, audioVars, now>>
notTodo == <<timerVars, storeVars, audioVars>>
notStore == <<timerVars, todoVars, audioVars>>
notAudio == <<timerVars, todoVars, storeVars, now>>

(***************************************************************************)
(* Bounds.                                                                 *)
(***************************************************************************)
\* setTime is called with 1..MaxMinutes minutes.
MaxMinutes == 2
\* Interval ids the page hands out: 1..NumHandles.
NumHandles == 1
\* The ticks of one run that the history variable run counts.
MaxTrackedTicks == 3

\* The to-do list holds at most MaxTasks tasks.
MaxTasks == 2
\* #todo-input holds at most MaxInputLen characters.
MaxInputLen == 2
\* Date.now() runs over 0..MaxClock.
MaxClock == 1

\* At most MaxOps calls of the store's methods are made.
MaxOps == 4

\* #rain-vol takes the values of [0, 1] with up to VolDigits decimals.
VolDigits == 1
\* startRain is called at most MaxNodes times.
MaxNodes == 3

\* this.interval = null
NULL == 0

Minutes == 1..MaxMinutes
HandleIds == 1..NumHandles

(***************************************************************************)
(* Number formatting: Number.prototype.toString, String.prototype.padStart,*)
(* JavaScript's % (the sign of the dividend).  Text is a sequence of       *)
(* one-character strings.                                                  *)
(***************************************************************************)
DigitChars == <<"0", "1", "2", "3", "4", "5", "6", "7", "8", "9">>

RECURSIVE toString(_)
toString(n) ==
    IF n < 0 THEN <<"-">> \o toString(-n)
    ELSE IF n < 10 THEN <<DigitChars[n + 1]>>
    ELSE toString(n \div 10) \o <<DigitChars[(n % 10) + 1]>>

RECURSIVE padStart(_, _, _)
padStart(s, n, c) == IF Len(s) >= n THEN s ELSE padStart(<<c>> \o s, n, c)

\* Reading a run of decimal digits back: the number it denotes.
DigitValue(c) == CHOOSE v \in 0..9 : DigitChars[v + 1] = c

IsDigit(c) == \E v \in 0..9 : DigitChars[v + 1] = c

RECURSIVE NatOf(_)
NatOf(t) == IF t = <<>> THEN 0
            ELSE 10 * NatOf(SubSeq(t, 1, Len(t) - 1)) + DigitValue(t[Len(t)])

jsMod(a, b) == IF a >= 0 THEN a % b ELSE -((-a) % b)

(***************************************************************************)
(* PomodoroTimer.  A timer state s is a record: the object's fields        *)
(* (timeLeft, originalTime, isRunning, interval), the page's live interval *)
(* ids (active), the text of #time-display (display) and whether the       *)
(* alert() of completeTimer is on screen (alertOpen).                      *)
(***************************************************************************)
updateDisplay_NoPad(s) ==
    [s EXCEPT !.display =
        toString(s.timeLeft \div 60) \o <<":">> \o toString(jsMod(s.timeLeft, 60))]

updateDisplay(s) ==
    [s EXCEPT !.display =
        toString(s.timeLeft \div 60) \o <<":">>
            \o padStart(toString(jsMod(s.timeLeft, 60)), 2, "0")]

pauseTimer_KeepsInterval(s) == [s EXCEPT !.isRunning = FALSE]

\* clearInterval(this.interval): the id leaves the page's interval table;
\* this.interval keeps the stale id.
pauseTimer(s) ==
    [s EXCEPT !.isRunning = FALSE, !.active = @ \ {s.interval}]

setTime_NoPause(s, minutes) ==
    updateDisplay([s EXCEPT !.originalTime = minutes * 60,
                            !.timeLeft = minutes * 60])

setTime(s, minutes) ==
    LET p == pauseTimer(s) IN
    updateDisplay([p EXCEPT !.originalTime = minutes * 60,
                            !.timeLeft = minutes * 60])

startTimer_NoGuard(s, h) ==
    [s EXCEPT !.isRunning = TRUE, !.interval = h, !.active = @ \cup {h}]

\* setInterval returns an id h that is not in the page's interval table.
startTimer(s, h) ==
    IF s.isRunning THEN s
    ELSE [s EXCEPT !.isRunning = TRUE, !.interval = h, !.active = @ \cup {h}]

toggleTimer_AlwaysStart(s, h) == startTimer(s, h)

toggleTimer(s, h) == IF s.isRunning THEN pauseTimer(s) ELSE startTimer(s, h)

resetTimer_NoPause(s) == updateDisplay([s EXCEPT !.timeLeft = s.originalTime])

resetTimer(s) ==
    LET p == pauseTimer(s) IN updateDisplay([p EXCEPT !.timeLeft = p.originalTime])

completeTimer_NoPause(s) == [s EXCEPT !.alertOpen = TRUE]

\* completeTimer up to its alert('Time is up!'), which blocks the page.
completeTimer(s) == [pauseTimer(s) EXCEPT !.alertOpen = TRUE]

completeTimerResume_NoReset(s) == updateDisplay([s EXCEPT !.alertOpen = FALSE])

\* completeTimer after the alert is dismissed.
completeTimerResume(s) ==
    updateDisplay([s EXCEPT !.alertOpen = FALSE, !.timeLeft = s.originalTime])

tick_NoComplete(s) == updateDisplay([s EXCEPT !.timeLeft = @ - 1])

\* The setInterval callback of startTimer.
tick(s) ==
    LET d == updateDisplay([s EXCEPT !.timeLeft = @ - 1]) IN
    IF d.timeLeft <= 0 THEN completeTimer(d) ELSE d

\* new PomodoroTimer(): the field initialisers, then init()'s updateDisplay.
TimerNew ==
    updateDisplay([timeLeft |-> 30 * 60, originalTime |-> 30 * 60,
                   isRunning |-> FALSE, interval |-> NULL, active |-> {},
                   display |-> <<>>, alertOpen |-> FALSE])

NoRun == [phase |-> "none", d0 |-> 0, k |-> 0]

TimerInit ==
    /\ timer = TimerNew
    /\ lastOp = [op |-> "new", arg |-> 0]
    /\ notified = 0
    /\ run = NoRun
    /\ past = [op |-> "new", s |-> TimerNew]

\* The run history after a call that starts the timer if it was paused.
RunAfterStart == IF timer.isRunning THEN run
                 ELSE [phase |-> "started", d0 |-> timer.timeLeft, k |-> 0]

\* The run history after a call to pauseTimer alone.
RunAfterPause == IF run.phase = "started" THEN [run EXCEPT !.phase = "paused"]
                 ELSE run

\* The history after an operation: the operation before it and the timer it
\* found.
PastNext == [op |-> lastOp.op, s |-> timer]

\* The ids setInterval may return: any id not in the page's interval table.
\* A call that finds the timer running calls no setInterval.
FreeHandles == IF timer.isRunning THEN {NULL} ELSE HandleIds \ timer.active

\* A click on a mode chip.
SetTime(minutes) ==
    /\ ~timer.alertOpen
    /\ timer' = setTime(timer, minutes)
    /\ lastOp' = [op |-> "setTime", arg |-> minutes]
    /\ run' = NoRun
    /\ past' = PastNext
    /\ UNCHANGED <<notified, notTimer>>

StartTimer ==
    /\ ~timer.alertOpen
    /\ \E h \in FreeHandles : timer' = startTimer(timer, h)
    /\ lastOp' = [op |-> "start", arg |-> 0]
    /\ notified' = IF timer.isRunning THEN notified ELSE 0
    /\ run' = RunAfterStart
    /\ past' = PastNext
    /\ UNCHANGED notTimer

PauseTimer ==
    /\ ~timer.alertOpen
    /\ timer' = pauseTimer(timer)
    /\ lastOp' = [op |-> "pause", arg |-> 0]
    /\ run' = RunAfterPause
    /\ past' = PastNext
    /\ UNCHANGED <<notified, notTimer>>

\* A click on #start-pause.
ToggleTimer ==
    /\ ~timer.alertOpen
    /\ \E h \in FreeHandles : timer' = toggleTimer(timer, h)
    /\ lastOp' = [op |-> "toggle", arg |-> 0]
    /\ notified' = IF timer.isRunning THEN notified ELSE 0
    /\ run' = IF timer.isRunning THEN RunAfterPause ELSE RunAfterStart
    /\ past' = PastNext
    /\ UNCHANGED notTimer

\* A click on #reset.
ResetTimer ==
    /\ ~timer.alertOpen
    /\ timer' = resetTimer(timer)
    /\ lastOp' = [op |-> "reset", arg |-> 0]
    /\ run' = NoRun
    /\ past' = PastNext
    /\ UNCHANGED <<notified, notTimer>>

\* The interval h fires.
Tick ==
    /\ ~timer.alertOpen
    /\ \E h \in timer.active :
        /\ timer' = tick(timer)
        /\ lastOp' = [op |-> "tick", arg |-> h]
    /\ notified' = IF timer'.alertOpen THEN notified + 1 ELSE notified
    /\ run' = IF run.phase = "started" /\ run.k < MaxTrackedTicks /\ ~timer'.alertOpen
              THEN [run EXCEPT !.k = @ + 1]
              ELSE NoRun
    /\ past' = PastNext
    /\ UNCHANGED notTimer

\* The user dismisses the alert; completeTimer goes on.
DismissAlert ==
    /\ timer.alertOpen
    /\ timer' = completeTimerResume(timer)
    /\ lastOp' = [op |-> "complete", arg |-> 0]
    /\ run' = NoRun
    /\ past' = PastNext
    /\ UNCHANGED <<notified, notTimer>>

TimerNext ==
    \/ \E minutes \in Minutes : SetTime(minutes)
    \/ StartTimer
    \/ PauseTimer
    \/ ToggleTimer
    \/ ResetTimer
    \/ Tick
    \/ DismissAlert


(***************************************************************************)
(* TodoManager.  A to-do state s is a record: this.tasks (tasks), the      *)
(* value of #todo-input (inputValue) and the localStorage item             *)
(* 'pomodoro-tasks' (item: whether it is present, and its text).  Task     *)
(* texts are sequences of the characters " " and "a"; none needs escaping  *)
(* in JSON.                                                                *)
(***************************************************************************)
Chars == {" ", "a"}
Whitespace == {" "}

RECURSIVE SeqsUpTo(_)
SeqsUpTo(n) ==
    IF n = 0 THEN {<<>>}
    ELSE LET shorter == SeqsUpTo(n - 1) IN
         shorter \cup {Append(t, c) : t \in {x \in shorter : Len(x) = n - 1}, c \in Chars}

Inputs == SeqsUpTo(MaxInputLen)

RECURSIVE trimStart(_)
trimStart(t) == IF t # <<>> /\ Head(t) \in Whitespace THEN trimStart(Tail(t)) ELSE t

RECURSIVE trimEnd(_)
trimEnd(t) == IF t # <<>> /\ t[Len(t)] \in Whitespace
              THEN trimEnd(SubSeq(t, 1, Len(t) - 1)) ELSE t

\* String.prototype.trim
trim(t) == trimEnd(trimStart(t))

\* JSON.stringify of one task: its keys in insertion order.
stringifyTask(t) ==
    <<"{", "\"id\"", ":">> \o toString(t.id)
        \o <<",", "\"text\"", ":", "\"">> \o t.text
        \o <<"\"", ",", "\"completed\"", ":",
             IF t.completed THEN "true" ELSE "false", "}">>

RECURSIVE stringifyItems(_)
stringifyItems(ts) ==
    IF Len(ts) = 1 THEN stringifyTask(ts[1])
    ELSE stringifyTask(ts[1]) \o <<",">> \o stringifyItems(Tail(ts))

JSONstringify_DropsCompleted(ts) ==
    IF ts = <<>> THEN <<"[", "]">>
    ELSE <<"[">>
         \o stringifyItems([i \in 1..Len(ts) |-> [ts[i] EXCEPT !.completed = FALSE]])
         \o <<"]">>

\* JSON.stringify(this.tasks)
JSONstringify(ts) ==
    IF ts = <<>> THEN <<"[", "]">> ELSE <<"[">> \o stringifyItems(ts) \o <<"]">>

\* The first position from i on where b holds c.
RECURSIVE indexOf(_, _, _)
indexOf(b, c, i) == IF b[i] = c THEN i ELSE indexOf(b, c, i + 1)

\* JSON.parse of one object that starts at b[i]: the task and the position
\* after its closing brace.
parseTask(b, i) ==
    LET idEnd == indexOf(b, ",", i + 3)
        textStart == idEnd + 4
        textEnd == indexOf(b, "\"", textStart)
    IN  [task |-> [id |-> NatOf(SubSeq(b, i + 3, idEnd - 1)),
                   text |-> SubSeq(b, textStart, textEnd - 1),
                   completed |-> b[textEnd + 4] = "true"],
         next |-> textEnd + 6]

RECURSIVE parseItems(_, _)
parseItems(b, i) ==
    LET p == parseTask(b, i) IN
    IF b[p.next] = "," THEN <<p.task>> \o parseItems(b, p.next + 1)
    ELSE <<p.task>>

\* JSON.parse of the item: null for an absent item, which gives [] by || [].
JSONparse(item) ==
    IF ~item.present THEN <<>>
    ELSE IF item.value = <<"[", "]">> THEN <<>>
    ELSE parseItems(item.value, 2)

\* localStorage.setItem('pomodoro-tasks', JSON.stringify(this.tasks))
save(s) == [s EXCEPT !.item = [present |-> TRUE, value |-> JSONstringify(s.tasks)]]

addTask_Appends(s, t) ==
    LET text == trim(s.inputValue) IN
    IF text = <<>> THEN s
    ELSE save([s EXCEPT
            !.tasks = Append(@, [id |-> t, text |-> text, completed |-> FALSE]),
            !.inputValue = <<>>])

\* addTask, with t the value of Date.now().
addTask(s, t) ==
    LET text == trim(s.inputValue) IN
    IF text = <<>> THEN s
    ELSE save([s EXCEPT
            !.tasks = <<[id |-> t, text |-> text, completed |-> FALSE]>> \o @,
            !.inputValue = <<>>])

\* this.tasks.find(t => t.id === id): the index of the first match, 0 for none.
find(ts, id) ==
    IF \E i \in 1..Len(ts) : ts[i].id = id
    THEN CHOOSE i \in 1..Len(ts) :
            /\ ts[i].id = id
            /\ \A j \in 1..(i - 1) : ts[j].id # id
    ELSE 0

toggleTask(s, id) ==
    LET i == find(s.tasks, id) IN
    IF i = 0 THEN s ELSE save([s EXCEPT !.tasks[i].completed = ~@])

\* this.tasks.filter(t => t.id !== id)
RECURSIVE filterOut(_, _)
filterOut(ts, id) ==
    IF ts = <<>> THEN <<>>
    ELSE IF Head(ts).id # id THEN <<Head(ts)>> \o filterOut(Tail(ts), id)
    ELSE filterOut(Tail(ts), id)

deleteTask(s, id) == save([s EXCEPT !.tasks = filterOut(@, id)])

\* new TodoManager() on a page that holds the localStorage item of s.
TodoNew(item) == [tasks |-> JSONparse(item), inputValue |-> <<>>, item |-> item]

TodoInit ==
    /\ todo = TodoNew([present |-> FALSE, value |-> <<>>])
    /\ now = 0
    /\ todoLast = [op |-> "new", arg |-> <<>>, before |-> todo, time |-> now]

\* The user leaves v in #todo-input and clicks #add-todo-btn or presses Enter.
AddTask(v) ==
    /\ Len(todo.tasks) < MaxTasks
    /\ todo' = addTask([todo EXCEPT !.inputValue = v], now)
    /\ todoLast' = [op |-> "add", arg |-> v, before |-> todo, time |-> now]
    /\ UNCHANGED <<now, notTodo>>

\* A click on the checkbox or the text of the i-th rendered task.
ToggleTask(i) ==
    /\ todo' = toggleTask(todo, todo.tasks[i].id)
    /\ todoLast' = [op |-> "toggle", arg |-> <<i>>, before |-> todo, time |-> now]
    /\ UNCHANGED <<now, notTodo>>

\* A click on the delete button of the i-th rendered task.
DeleteTask(i) ==
    /\ todo' = deleteTask(todo, todo.tasks[i].id)
    /\ todoLast' = [op |-> "delete", arg |-> <<i>>, before |-> todo, time |-> now]
    /\ UNCHANGED <<now, notTodo>>

\* The page is loaded again: a new TodoManager reads localStorage.
Reload ==
    /\ todo' = TodoNew(todo.item)
    /\ todoLast' = [op |-> "reload", arg |-> <<>>, before |-> todo, time |-> now]
    /\ UNCHANGED <<now, notTodo>>

\* A millisecond passes.
ClockTick ==
    /\ now < MaxClock
    /\ now' = now + 1
    /\ UNCHANGED <<todoVars, timerVars, storeVars, audioVars>>

TodoNext ==
    \/ \E v \in Inputs : AddTask(v)
    \/ \E i \in 1..Len(todo.tasks) : ToggleTask(i)
    \/ \E i \in 1..Len(todo.tasks) : DeleteTask(i)
    \/ Reload
    \/ ClockTick

(***************************************************************************)
(* ImageStorage and its callers in BackgroundManager.  A store state s is  *)
(* a record:                                                               *)
(*   db       whether this.db is set (non-null);                           *)
(*   request  the IDBOpenDBRequest of openDB: "pending", "upgrading" (its  *)
(*            onupgradeneeded ran and the versionchange transaction is     *)
(*            live), "success" or "error"; initPromise is settled exactly  *)
(*            in the last two;                                             *)
(*   opens    the number of indexedDB.open calls made (openDB runs in the  *)
(*            constructor only);                                           *)
(*   fresh    whether the database has to be created (upgrade needed);     *)
(*   records  the object store's records, {id, name, data};                *)
(*   queue    the transactions created and not yet run, in creation order  *)
(*            (they all span the one object store, so they run in order);  *)
(*   ops      the calls made so far, each with its progress.               *)
(* db.transaction() throws InvalidStateError unless the request has        *)
(* succeeded: before that the versionchange transaction is running, after  *)
(* an error the connection is closed.                                      *)
(***************************************************************************)
\* The files the user uploads.
Files == {[name |-> "a.png", bytes |-> <<"x">>]}
NoFile == [name |-> "", bytes |-> <<>>]
NoItem == [id |-> -1, name |-> "", data |-> <<>>]

\* FileReader.readAsDataURL: reader.result for the file's bytes.
readAsDataURL(file) == <<"data:", ";base64,">> \o file.bytes

\* A record that an earlier page load may have left in the database.
OldRecord == [id |-> 0, name |-> "old.png", data |-> <<"data:", ";base64,", "o">>]

\* early: the call is made before the open request has finished.
NewOp(kind, caller, file, id, waits, early) ==
    [kind |-> kind, caller |-> caller, file |-> file, id |-> id,
     state |-> IF waits THEN "waitInit" ELSE "called",
     item |-> NoItem, result |-> {}, alerts |-> 0, logs |-> 0, options |-> {},
     txAt |-> "none", early |-> early]

\* db.transaction() returns a transaction rather than throwing.
transactionOk(s) == s.request = "success"

\* Op o calls db.transaction(); txAt keeps the state of the open request then.
transaction(s, o) == [s EXCEPT !.ops[o].txAt = s.request]

rejectOp_NoAlert(s, o) ==
    [s EXCEPT !.ops[o].state = "rejected",
              !.ops[o].logs = IF s.ops[o].caller \in {"upload", "load"} THEN @ + 1 ELSE @]

\* The caller's code after the promise of op o is rejected: the upload
\* handler logs and alerts, loadSavedImages only logs to the console.
rejectOp(s, o) ==
    [s EXCEPT !.ops[o].state = "rejected",
              !.ops[o].alerts = IF s.ops[o].caller = "upload" THEN @ + 1 ELSE @,
              !.ops[o].logs = IF s.ops[o].caller \in {"upload", "load"} THEN @ + 1 ELSE @]

\* The caller's code after the promise of op o is resolved: the upload
\* handler and loadSavedImages add the records to the grid of saved images.
resolveOp(s, o, item, result) ==
    [s EXCEPT !.ops[o].state = "resolved",
              !.ops[o].item = item,
              !.ops[o].result = result,
              !.ops[o].options =
                  IF s.ops[o].caller = "upload" THEN {item}
                  ELSE IF s.ops[o].caller = "load" THEN result
                  ELSE {}]

\* saveImage after its first line: the FileReader starts to read.
saveImageRead(s, o) == [s EXCEPT !.ops[o].state = "reading"]

\* reader.onload of saveImage at time t.  A throw of db.transaction() is
\* uncaught in the callback: the promise is never settled.
saveImageOnload(s, o, t) ==
    IF transactionOk(s)
    THEN LET item == [id |-> t, name |-> s.ops[o].file.name,
                      data |-> readAsDataURL(s.ops[o].file)]
         IN  [transaction(s, o) EXCEPT
                       !.ops[o].state = "adding",
                       !.ops[o].item = item,
                       !.queue = Append(@, [op |-> o, kind |-> "add", item |-> item, id |-> t])]
    ELSE [transaction(s, o) EXCEPT !.ops[o].state = "stuck"]

\* getAllImages after its first line: the promise's executor.
getAllImagesRequest(s, o) ==
    IF transactionOk(s)
    THEN [transaction(s, o) EXCEPT
                   !.ops[o].state = "requested",
                   !.queue = Append(@, [op |-> o, kind |-> "getAll", item |-> NoItem, id |-> -1])]
    ELSE rejectOp(transaction(s, o), o)

deleteImageRequest_NoDelete(s, o) ==
    IF transactionOk(s)
    THEN [transaction(s, o) EXCEPT
                   !.ops[o].state = "returned",
                   !.queue = Append(@, [op |-> o, kind |-> "none", item |-> NoItem, id |-> -1])]
    ELSE rejectOp(transaction(s, o), o)

\* deleteImage after its first line: it returns once store.delete is
\* requested, without waiting for the request or the transaction.
deleteImageRequest(s, o) ==
    IF transactionOk(s)
    THEN [transaction(s, o) EXCEPT
                   !.ops[o].state = "returned",
                   !.queue = Append(@, [op |-> o, kind |-> "delete", item |-> NoItem,
                                        id |-> s.ops[o].id])]
    ELSE rejectOp(transaction(s, o), o)

\* The part of op o that follows `if (!this.db) await this.initPromise`.
proceed(s, o) ==
    CASE s.ops[o].kind = "save" -> saveImageRead(s, o)
      [] s.ops[o].kind = "getAll" -> getAllImagesRequest(s, o)
      [] s.ops[o].kind = "delete" -> deleteImageRequest(s, o)

\* A call of saveImage, getAllImages or deleteImage up to its first line: it
\* awaits initPromise if this.db is not set and goes on at once otherwise.
\* The await of a promise that is rejected already throws at once.
call(s, kind, caller, file, id) ==
    LET o == Len(s.ops) + 1
        c == [s EXCEPT !.ops = Append(@, NewOp(kind, caller, file, id, ~s.db,
                                           s.request \in {"pending", "upgrading"}))]
    IN  IF s.db THEN proceed(c, o)
        ELSE IF s.request = "error" THEN rejectOp(c, o)
        ELSE c

\* The calls that await initPromise go on, in the order they were made.
RECURSIVE settleWaiters(_, _, _)
settleWaiters(s, o, resolved) ==
    IF o > Len(s.ops) THEN s
    ELSE IF s.ops[o].state # "waitInit" THEN settleWaiters(s, o + 1, resolved)
    ELSE settleWaiters(IF resolved THEN proceed(s, o) ELSE rejectOp(s, o), o + 1, resolved)

\* request.onupgradeneeded of openDB: this.db is set, the object store made.
onupgradeneeded(s) == [s EXCEPT !.db = TRUE, !.request = "upgrading"]

\* request.onsuccess of openDB: this.db is set and initPromise resolved.
onsuccess(s) ==
    settleWaiters([s EXCEPT !.db = TRUE, !.request = "success", !.fresh = FALSE], 1, TRUE)

\* request.onerror of openDB: initPromise is rejected; an upgrade is undone.
onerror(s) == settleWaiters([s EXCEPT !.request = "error"], 1, FALSE)

execTx_Put(s, writeOk) ==
    LET tx == Head(s.queue)
        rest == [s EXCEPT !.queue = Tail(@)]
    IN  CASE tx.kind = "add" ->
                IF writeOk
                THEN resolveOp([rest EXCEPT !.records =
                                    {r \in @ : r.id # tx.item.id} \cup {tx.item}],
                               tx.op, tx.item, {})
                ELSE rejectOp(rest, tx.op)
          [] tx.kind = "getAll" -> resolveOp(rest, tx.op, NoItem, s.records)
          [] tx.kind = "delete" -> [rest EXCEPT !.records = {r \in @ : r.id # tx.id}]
          [] OTHER -> rest

\* The oldest transaction runs.  store.add fails on a key that is present
\* (ConstraintError) or when the write is refused (writeOk false: quota).
execTx(s, writeOk) ==
    LET tx == Head(s.queue)
        rest == [s EXCEPT !.queue = Tail(@)]
    IN  CASE tx.kind = "add" ->
                IF writeOk /\ ~\E r \in s.records : r.id = tx.item.id
                THEN resolveOp([rest EXCEPT !.records = @ \cup {tx.item}], tx.op, tx.item, {})
                ELSE rejectOp(rest, tx.op)
          [] tx.kind = "getAll" -> resolveOp(rest, tx.op, NoItem, s.records)
          [] tx.kind = "delete" -> [rest EXCEPT !.records = {r \in @ : r.id # tx.id}]
          [] OTHER -> rest

\* new BackgroundManager(): new ImageStorage() calls openDB, then
\* loadSavedImages calls getAllImages while this.db is still null.
StoreNew(fresh, records) ==
    call([db |-> FALSE, request |-> "pending", opens |-> 1, fresh |-> fresh,
          records |-> records, queue |-> <<>>, ops |-> <<>>],
         "getAll", "load", NoFile, -1)

NoExpect == [in |-> {}, out |-> {}]

StoreInit ==
    /\ \E fresh \in BOOLEAN :
         \E records \in (IF fresh THEN {{}} ELSE {{}, {OldRecord}}) :
            store = StoreNew(fresh, records)
    /\ storeHist = [live |-> {}, gone |-> {}, at |-> <<NoExpect>>]

\* The history after a step from store to s2.  live: the records whose put
\* has succeeded and that no deleteImage call made since names; gone: the ids
\* whose deleteImage has returned and that no add requested since carries.
\* A getAllImages call records both when it is made.
HistAfter(s2) ==
    LET n == Len(store.ops)
        became(o, st) == s2.ops[o].state = st /\ (o > n \/ store.ops[o].state # st)
        all == 1..Len(s2.ops)
        deleted == {s2.ops[o].id : o \in {x \in all : x > n /\ s2.ops[x].kind = "delete"}}
        pendingDelete == {s2.queue[i].id : i \in {j \in 1..Len(s2.queue) : s2.queue[j].kind = "delete"}}
        put == {s2.ops[o].item : o \in {x \in all : s2.ops[x].kind = "save" /\ became(x, "resolved")}}
        returned == {s2.ops[o].id : o \in {x \in all : s2.ops[x].kind = "delete" /\ became(x, "returned")}}
        adding == {s2.ops[o].item.id : o \in {x \in all : s2.ops[x].kind = "save" /\ became(x, "adding")}}
    IN  [live |-> {r \in storeHist.live \cup {p \in put : p.id \notin pendingDelete} :
                        r.id \notin deleted},
         gone |-> (storeHist.gone \cup returned) \ adding,
         at |-> IF Len(s2.ops) > n
                THEN Append(storeHist.at,
                            IF s2.ops[n + 1].kind = "getAll"
                            THEN [in |-> storeHist.live, out |-> storeHist.gone]
                            ELSE NoExpect)
                ELSE storeHist.at]

StoreStep(s2) ==
    /\ store' = s2
    /\ storeHist' = HistAfter(s2)
    /\ UNCHANGED <<now, notStore>>

UpgradeNeeded ==
    /\ store.request = "pending"
    /\ store.fresh
    /\ StoreStep(onupgradeneeded(store))

OpenSuccess ==
    /\ \/ store.request = "pending" /\ ~store.fresh
       \/ store.request = "upgrading"
    /\ StoreStep(onsuccess(store))

OpenError ==
    /\ store.request \in {"pending", "upgrading"}
    /\ StoreStep(onerror(store))

\* The user picks a file in #bg-upload.
Upload(file) ==
    /\ Len(store.ops) < MaxOps
    /\ StoreStep(call(store, "save", "upload", file, -1))

\* Code of the page calls getAllImages.
GetAllImages ==
    /\ Len(store.ops) < MaxOps
    /\ StoreStep(call(store, "getAll", "api", NoFile, -1))

\* Code of the page calls deleteImage(id), with id a timestamp up to now.
DeleteImage(id) ==
    /\ Len(store.ops) < MaxOps
    /\ StoreStep(call(store, "delete", "api", NoFile, id))

\* The FileReader of op o has read the file.
ReaderLoad(o) ==
    /\ store.ops[o].kind = "save"
    /\ store.ops[o].state = "reading"
    /\ StoreStep(saveImageOnload(store, o, now))

\* The FileReader of op o fails; saveImage sets no reader.onerror.
ReaderError(o) ==
    /\ store.ops[o].kind = "save"
    /\ store.ops[o].state = "reading"
    /\ StoreStep([store EXCEPT !.ops[o].state = "stuck"])

ExecTx(writeOk) ==
    /\ store.queue # <<>>
    /\ StoreStep(execTx(store, writeOk))

StoreNext ==
    \/ UpgradeNeeded
    \/ OpenSuccess
    \/ OpenError
    \/ \E file \in Files : Upload(file)
    \/ GetAllImages
    \/ \E id \in 0..now : DeleteImage(id)
    \/ \E o \in 1..Len(store.ops) : ReaderLoad(o)
    \/ \E o \in 1..Len(store.ops) : ReaderError(o)
    \/ \E writeOk \in BOOLEAN : ExecTx(writeOk)
    \/ ClockTick

(***************************************************************************)
(* AudioMixer.  A mixer state s is a record: this.rainNode and             *)
(* this.rainGain (the number of the startRain call that made the node,     *)
(* NULL for null), the value of #rain-vol (sliderValue, a text), the       *)
(* number of startRain calls so far (created), the buffer sources started  *)
(* and not stopped (playing), the gain set on the node of rainGain         *)
(* (gainValue), this.ctx.state (ctxState) and whether the once-only click  *)
(* listener has run (clicked).  A number is a record [n, scale] that       *)
(* stands for n / 10^scale, with no trailing zero decimal.                 *)
(***************************************************************************)
DigitSet == {DigitChars[i] : i \in 1..10}

\* The values #rain-vol can hold: the decimal texts of [0, 1].
SliderValues ==
    {<<"0">>, <<"1">>}
    \cup UNION {{<<"0", ".">> \o f : f \in [1..d -> DigitSet]} : d \in 1..VolDigits}
    \cup {<<"1", ".">> \o [i \in 1..d |-> "0"] : d \in 1..VolDigits}

RECURSIVE Number(_, _)
Number(n, scale) ==
    IF scale > 0 /\ n % 10 = 0 THEN Number(n \div 10, scale - 1)
    ELSE [n |-> n, scale |-> scale]

\* The position of the first "." of t, 0 if there is none.
dotOf(t) ==
    IF \E i \in 1..Len(t) : t[i] = "."
    THEN CHOOSE i \in 1..Len(t) : t[i] = "." /\ \A j \in 1..(i - 1) : t[j] # "."
    ELSE 0

\* parseFloat of a decimal text: the digits before and after the point.
parseFloat(t) ==
    LET dot == dotOf(t)
        whole == IF dot = 0 THEN t ELSE SubSeq(t, 1, dot - 1)
        frac == IF dot = 0 THEN <<>> ELSE SubSeq(t, dot + 1, Len(t))
    IN  Number(NatOf(whole \o frac), Len(frac))

Zero == [n |-> 0, scale |-> 0]

\* startRain: a new buffer source and a new gain node, the gain set from the
\* slider, the source started and kept in this.rainNode.
startRain(s) ==
    LET id == s.created + 1 IN
    [s EXCEPT !.created = id,
              !.rainGain = id,
              !.gainValue = parseFloat(s.sliderValue),
              !.playing = @ \cup {id},
              !.rainNode = id]

\* stopRain: the source is stopped and dropped; rainGain is kept.
stopRain(s) ==
    IF s.rainNode # NULL
    THEN [s EXCEPT !.playing = @ \ {s.rainNode}, !.rainNode = NULL]
    ELSE s

onInput_NoNodeCheck(s) ==
    LET vol == parseFloat(s.sliderValue)
        a == IF vol.n > 0 THEN startRain(s) ELSE s
        b == IF a.rainGain # NULL THEN [a EXCEPT !.gainValue = vol] ELSE a
    IN  IF vol = Zero /\ b.rainNode # NULL THEN stopRain(b) ELSE b

\* The 'input' listener of #rain-vol, with the slider's value in s.
onInput(s) ==
    LET vol == parseFloat(s.sliderValue)
        a == IF vol.n > 0 /\ s.rainNode = NULL THEN startRain(s) ELSE s
        b == IF a.rainGain # NULL THEN [a EXCEPT !.gainValue = vol] ELSE a
    IN  IF vol = Zero /\ b.rainNode # NULL THEN stopRain(b) ELSE b

\* The once-only 'click' listener of the document.
onClick(s) ==
    [s EXCEPT !.clicked = TRUE,
              !.ctxState = IF @ = "suspended" THEN "running" ELSE @]

\* new AudioMixer() on a page whose slider holds v and whose AudioContext
\* starts in state c (the autoplay policy decides).
AudioNew(v, c) ==
    [rainNode |-> NULL, rainGain |-> NULL, sliderValue |-> v, created |-> 0,
     playing |-> {}, gainValue |-> Zero, ctxState |-> c, clicked |-> FALSE]

AudioInit ==
    /\ \E v \in SliderValues : \E c \in {"suspended", "running"} :
          mixer = AudioNew(v, c)
    /\ mixerLast = [op |-> "new", inputs |-> FALSE]

\* The page with the slider at 0 and the context suspended.
AudioQuiet ==
    /\ mixer = AudioNew(<<"0">>, "suspended")
    /\ mixerLast = [op |-> "new", inputs |-> FALSE]

\* The user moves #rain-vol to v.
VolumeInput(v) ==
    LET s2 == onInput([mixer EXCEPT !.sliderValue = v]) IN
    /\ s2.created <= MaxNodes
    /\ mixer' = s2
    /\ mixerLast' = [op |-> "input", inputs |-> TRUE]
    /\ UNCHANGED notAudio

\* The first click on the page.
Click ==
    /\ ~mixer.clicked
    /\ mixer' = onClick(mixer)
    /\ mixerLast' = [mixerLast EXCEPT !.op = "click"]
    /\ UNCHANGED notAudio

AudioNext ==
    \/ \E v \in SliderValues : VolumeInput(v)
    \/ Click

(***************************************************************************)
(* Specifications: one per object; the other objects stand still.          *)
(***************************************************************************)
Init == TimerInit /\ TodoInit /\ StoreInit /\ AudioQuiet

\* The page's first load: the database does not exist yet.
InitFirstLoad == Init /\ store.fresh

SpecTimer == InitFirstLoad /\ [][TimerNext]_vars

\* The timer left alone while it runs: the user sets a time only while the
\* timer is paused, and never pauses, resets or toggles.
SetTimePaused(minutes) ==
    /\ ~timer.isRunning
    /\ SetTime(minutes)

TimerRunNext ==
    \/ \E minutes \in Minutes : SetTimePaused(minutes)
    \/ StartTimer
    \/ Tick
    \/ DismissAlert

\* The browser's scheduling: a live interval fires, and the user dismisses
\* the alert.
SpecTimerRun ==
    /\ InitFirstLoad
    /\ [][TimerRunNext]_vars
    /\ WF_vars(Tick)
    /\ WF_vars(DismissAlert)

SpecTodo == InitFirstLoad /\ [][TodoNext]_vars

SpecStore == Init /\ [][StoreNext]_vars

\* The page's first load, with any value of the slider and any state of
\* the audio context.
InitAudio == TimerInit /\ TodoInit /\ StoreInit /\ store.fresh /\ AudioInit

SpecAudio == InitAudio /\ [][AudioNext]_vars

\* The store with the browser's scheduling: an open request fires one of its
\* events, a FileReader that reads ends in load or in error, and a queued
\* transaction runs.
SpecStoreFair ==
    /\ SpecStore
    /\ WF_vars(UpgradeNeeded \/ OpenSuccess \/ OpenError)
    /\ WF_vars(\E o \in 1..Len(store.ops) : ReaderLoad(o) \/ ReaderError(o))
    /\ WF_vars(\E writeOk \in BOOLEAN : ExecTx(writeOk))

(***************************************************************************)
(* Claims about the timer, checked under SpecTimer.                        *)
(***************************************************************************)
Paused == ~timer.isRunning

\* C1: right after setTime(m), which sets a duration of d = 60 * m seconds,
\* remaining = duration = d, the timer is Paused and no interval is live, so
\* no tick can fire and change remaining.
C1_SetDuration ==
    lastOp.op = "setTime" =>
        /\ timer.timeLeft = 60 * lastOp.arg
        /\ timer.originalTime = 60 * lastOp.arg
        /\ Paused
        /\ timer.active = {}
        /\ ~ENABLED Tick

C1_Witness ==
    /\ lastOp.op = "setTime"
    /\ lastOp.arg = 2
    /\ timer.timeLeft = 120
    /\ timer.interval # NULL

\* C2: start() from Paused with remaining d0, then k ticks (k < d0), then
\* pause(): remaining = d0 - k, the timer is Paused, and no tick can fire
\* while it stays paused.
C2_StartTicksPause ==
    run.phase = "paused" =>
        /\ run.k < run.d0
        /\ timer.timeLeft = run.d0 - run.k
        /\ Paused
        /\ ~ENABLED Tick

C2_Witness ==
    /\ run.phase = "paused"
    /\ run.k = 2
    /\ run.d0 = 58
    /\ timer.timeLeft = 56

\* C3: an expiry raises exactly one alert: at most one alert since the last
\* start; the alert is on screen exactly when remaining is 0, with the
\* interval cleared and the timer Paused; once it is dismissed the timer is
\* Paused with remaining = duration and no live interval.
C3_OneNotification ==
    /\ notified <= 1
    /\ (timer.timeLeft <= 0) = timer.alertOpen
    /\ timer.alertOpen =>
        /\ notified = 1
        /\ Paused
        /\ timer.active = {}
    /\ lastOp.op = "complete" =>
        /\ notified = 1
        /\ Paused
        /\ timer.active = {}
        /\ ~ENABLED Tick
        /\ timer.timeLeft = timer.originalTime

C3_Witness ==
    /\ lastOp.op = "complete"
    /\ notified = 1
    /\ timer.timeLeft = timer.originalTime

\* C9: the display reads M:SS for the current remaining r: the digits before
\* the colon are floor(r / 60) without padding, the two digits after it are
\* r mod 60; 125 reads "2:05" and 59 reads "0:59".
C9_Display ==
    LET d == timer.display
        n == Len(d)
        r == timer.timeLeft
    IN  /\ n >= 4
        /\ d[n - 2] = ":"
        /\ \A i \in (1..n) \ {n - 2} : IsDigit(d[i])
        /\ n > 4 => d[1] # "0"
        /\ NatOf(SubSeq(d, 1, n - 3)) = r \div 60
        /\ NatOf(SubSeq(d, n - 1, n)) = r % 60
        /\ r = 125 => d = <<"2", ":", "0", "5">>
        /\ r = 59 => d = <<"0", ":", "5", "9">>

C9_Witness ==
    /\ lastOp.op = "tick"
    /\ timer.timeLeft = 125
    /\ timer.display = <<"2", ":", "0", "5">>

\* C10: remaining is an integer with 0 <= remaining <= duration.
C10_RemainingInRange ==
    /\ timer.timeLeft \in Int
    /\ 0 <= timer.timeLeft
    /\ timer.timeLeft <= timer.originalTime

C10_Witness ==
    /\ timer.timeLeft = 0
    /\ lastOp.op = "tick"

\* C11: a start while running changes nothing; at most one recurring tick is
\* registered at any time, and one is registered exactly when the running flag
\* is set; every tick lowers the remaining time by exactly 1, however many
\* starts and toggles came before it.
C11_SingleTick ==
    /\ Cardinality(timer.active) <= 1
    /\ (timer.active # {}) <=> timer.isRunning
    /\ timer.isRunning => timer.active = {timer.interval}
    /\ (lastOp.op = "start" /\ past.s.isRunning) => timer = past.s
    /\ lastOp.op = "tick" => timer.timeLeft = past.s.timeLeft - 1

C11_Witness ==
    /\ lastOp.op = "start"
    /\ past.op = "tick"
    /\ past.s.isRunning
    /\ timer.isRunning

\* C17: right after a reset, from any state, the timer is Paused, remaining
\* equals the duration, no interval is live (no tick can fire) and the
\* duration is the one before; a reset of a timer that was Paused with
\* remaining equal to the duration leaves the timer as it was.
C17_Reset ==
    lastOp.op = "reset" =>
        /\ Paused
        /\ timer.timeLeft = timer.originalTime
        /\ timer.active = {}
        /\ ~ENABLED Tick
        /\ timer.originalTime = past.s.originalTime
        /\ (~past.s.isRunning /\ past.s.timeLeft = past.s.originalTime)
              => timer = past.s

C17_Witness ==
    /\ lastOp.op = "reset"
    /\ past.op = "tick"
    /\ past.s.isRunning
    /\ past.s.timeLeft < past.s.originalTime
    /\ timer.timeLeft = timer.originalTime

\* C18: a toggle of a running timer does what pauseTimer does (Paused,
\* remaining kept) and a toggle of a paused timer does what startTimer does
\* (running, remaining kept); a second toggle right after it, with no tick
\* between the two, gives back the running flag from before the first and
\* leaves remaining and the duration as they were.
C18_Toggle ==
    lastOp.op = "toggle" =>
        /\ past.s.isRunning =>
              /\ timer = pauseTimer(past.s)
              /\ Paused
        /\ ~past.s.isRunning =>
              /\ \E h \in HandleIds \ past.s.active : timer = startTimer(past.s, h)
              /\ timer.isRunning
        /\ timer.timeLeft = past.s.timeLeft
        /\ timer.originalTime = past.s.originalTime
        /\ \A h \in FreeHandles :
              LET twice == toggleTimer(timer, h)
              IN  /\ twice.isRunning = past.s.isRunning
                  /\ twice.timeLeft = past.s.timeLeft
                  /\ twice.originalTime = past.s.originalTime
        /\ past.op = "toggle" => timer.isRunning # past.s.isRunning

\* C19: a running timer with remaining r > 0 that no pause, reset, toggle
\* or setTime cuts short gets, with the interval firing fairly, to its
\* completion alert; every tick lowers remaining by exactly 1 and the alert is
\* raised by the tick that takes remaining from 1 to 0, so after exactly r
\* ticks; and once the alert is dismissed the timer is Paused with remaining
\* equal to the duration.
C19_Completion ==
    /\ [](lastOp.op = "tick" => timer.timeLeft = past.s.timeLeft - 1)
    /\ [](timer.alertOpen =>
            /\ lastOp.op = "tick"
            /\ past.s.timeLeft = 1
            /\ timer.timeLeft = 0
            /\ Paused)
    /\ (timer.isRunning /\ timer.timeLeft > 0) ~> timer.alertOpen
    /\ timer.alertOpen ~>
          (/\ lastOp.op = "complete"
           /\ Paused
           /\ timer.timeLeft = timer.originalTime)

C19_Witness ==
    /\ lastOp.op = "complete"
    /\ past.op = "tick"
    /\ past.s.alertOpen
    /\ notified = 1
    /\ Paused
    /\ timer.timeLeft = timer.originalTime

C18_Witness ==
    /\ lastOp.op = "toggle"
    /\ past.op = "toggle"
    /\ timer.isRunning
    /\ timer.timeLeft < timer.originalTime

C7_PersistedEqualsMemory ==
    /\ ~todo.item.present => todo.tasks = <<>>
    /\ JSONparse(todo.item) = todo.tasks
    /\ TodoNew(todo.item).tasks = todo.tasks

C7_Witness ==
    /\ todoLast.op = "reload"
    /\ Len(todo.tasks) = 2
    /\ todo.tasks[2].completed
    /\ ~todo.tasks[1].completed
    /\ todo.tasks[1].id # todo.tasks[2].id

\* The tasks ts without the one at position i.
WithoutAt(ts, i) == SubSeq(ts, 1, i - 1) \o SubSeq(ts, i + 1, Len(ts))

\* C13: on any list that adds can build, two adds with the same timestamp id
\* included, a toggle of the task at position i flips the completed flag of
\* that task and changes nothing else, and a delete of the task at position
\* i removes that task and leaves the others as they were, in their order.
C13_ExactlyThatTask ==
    LET i == todoLast.arg[1]
        b == todoLast.before.tasks
    IN  /\ todoLast.op = "toggle" =>
              todo.tasks = [b EXCEPT ![i].completed = ~@]
        /\ todoLast.op = "delete" =>
              todo.tasks = WithoutAt(b, i)

(***************************************************************************)
(* Claims about the image store, checked under SpecStore.                  *)
(***************************************************************************)
OpIds == 1..Len(store.ops)

\* C4: a put that succeeds returns a record with the file's name; a
\* getAllImages call made after that (and before any deleteImage of its id)
\* returns the record; a getAllImages call made after deleteImage(id) has
\* returned (and before any later add of that id) returns no record with id.
C4_PutListDelete ==
    \A o \in OpIds :
        /\ (store.ops[o].kind = "save" /\ store.ops[o].state = "resolved") =>
              /\ store.ops[o].item.name = store.ops[o].file.name
              /\ store.ops[o].item.id \in 0..now
        /\ (store.ops[o].kind = "getAll" /\ store.ops[o].state = "resolved") =>
              /\ storeHist.at[o].in \subseteq store.ops[o].result
              /\ \A r \in store.ops[o].result : r.id \notin storeHist.at[o].out

C4_Witness ==
    \E p, d, g \in OpIds :
        /\ p < d /\ d < g
        /\ store.ops[p].kind = "save" /\ store.ops[p].state = "resolved"
        /\ store.ops[p].item.name = "a.png"
        /\ store.ops[d].kind = "delete" /\ store.ops[d].state = "returned"
        /\ store.ops[d].id = store.ops[p].item.id
        /\ store.ops[g].kind = "getAll" /\ store.ops[g].state = "resolved"
        /\ store.ops[p].item.id \in storeHist.at[g].out
        /\ store.ops[p].item \notin store.ops[g].result

\* C5: no operation calls db.transaction() before the open request has
\* succeeded: every operation made earlier waits for initPromise.
C5_WaitsForReady ==
    \A o \in OpIds : store.ops[o].txAt \in {"none", "success"}

C12_RecordsImmutable ==
    [][/\ \A r \in store.records :
            \/ r \in store'.records
            \/ /\ store.queue # <<>>
               /\ store'.queue = Tail(store.queue)
               /\ Head(store.queue).kind = "delete"
               /\ Head(store.queue).id = r.id
               /\ \A r2 \in store'.records : r2.id # r.id
       /\ \A r1, r2 \in store'.records : r1.id = r2.id => r1 = r2
       /\ (/\ store.queue # <<>>
           /\ store'.queue = Tail(store.queue)
           /\ Head(store.queue).kind = "add"
           /\ \E r \in store.records : r.id = Head(store.queue).item.id)
          => /\ store'.records = store.records
             /\ store'.ops[Head(store.queue).op].state = "rejected"
      ]_vars

C12_Witness ==
    \E o \in OpIds :
        /\ store.ops[o].kind = "save"
        /\ store.ops[o].state = "rejected"
        /\ store.ops[o].txAt = "success"
        /\ \E r \in store.records :
              /\ r.id = store.ops[o].item.id
              /\ r.name # store.ops[o].item.name

\* C14: every saveImage call is settled in the end, resolved with the stored
\* record or rejected, once the open request has finished, also when the
\* FileReader fails and when db.transaction() throws.
C14_PutSettles ==
    \A o \in 1..MaxOps :
        (/\ o \in OpIds
         /\ store.ops[o].kind = "save"
         /\ store.request \in {"success", "error"})
            ~> (o \in OpIds /\ store.ops[o].state \in {"resolved", "rejected"})

\* C15: the store is opened once, and the operations called before the open
\* request has finished all see its outcome: after its success none of them
\* has used the database but after that success, and none is left waiting;
\* after its failure all of them are rejected without having touched the
\* database.
C15_SameOutcome ==
    /\ store.opens = 1
    /\ \A o \in OpIds :
          store.ops[o].early =>
              /\ store.request = "success" =>
                    /\ store.ops[o].txAt \in {"none", "success"}
                    /\ store.ops[o].state # "waitInit"
              /\ store.request = "error" =>
                    /\ store.ops[o].txAt = "none"
                    /\ store.ops[o].state = "rejected"

\* No record of s has the id.
Absent(s, id) == \A r \in s.records : r.id # id

\* C16: once the store is open, a deleteImage(id) of an id that is not in
\* the store has completed without error, its transaction leaves every
\* record as it was, and a second deleteImage(id) right after the first
\* leaves the store as the first did.
C16_DeleteAbsent ==
    /\ store.request = "success" =>
          \A o \in OpIds :
              (store.ops[o].kind = "delete" /\ Absent(store, store.ops[o].id))
                  => store.ops[o].state = "returned"
    /\ (/\ store.queue # <<>>
        /\ Head(store.queue).kind = "delete"
        /\ Absent(store, Head(store.queue).id))
          => execTx(store, TRUE).records = store.records
    /\ (/\ Len(store.queue) >= 2
        /\ store.queue[1].kind = "delete"
        /\ store.queue[2] = [store.queue[1] EXCEPT !.op = store.queue[2].op])
          => execTx(execTx(store, TRUE), TRUE).records = execTx(store, TRUE).records

(***************************************************************************)
(* Claims about the mixer, checked under SpecAudio.                        *)
(***************************************************************************)
\* C20: after any input events of the volume slider with values in [0, 1],
\* a noise source is held and playing exactly when the last value was
\* greater than 0, and at no time does more than one noise source play.
C20_OneNoiseSource ==
    /\ Cardinality(mixer.playing) <= 1
    /\ mixer.playing = IF mixer.rainNode = NULL THEN {} ELSE {mixer.rainNode}
    /\ mixerLast.inputs =>
          ((mixer.rainNode # NULL) <=> (parseFloat(mixer.sliderValue).n > 0))

C20_Witness ==
    /\ mixerLast.op = "input"
    /\ mixer.created = 2
    /\ mixer.playing = {2}
    /\ mixer.sliderValue = <<"0", ".", "5">>

=============================================================================
